---- MODULE Spec2Model ----
(***************************************************************************)
(* The Newton driver of lib-example/src/polytrope2d.cpp (function main).   *)
(*                                                                         *)
(* pc is the source line of the statement main executes next, so every     *)
(* action below is one statement of main.  The library objects main uses   *)
(* (solver op, symbolic S, figure) are kept as the record of what main has *)
(* asked of them; the numbers the library computes are either drawn from a *)
(* finite sample (the corrections solve() returns) or kept as terms over   *)
(* the values they were computed from (the residuals eq.eval() returns).   *)
(*                                                                         *)
(* Doubles are integers on a coarse grid.  Only comparisons are made with  *)
(* tol, 0.01 and the initial error 1., so the grid keeps their order       *)
(* 0 < tol < 0.01 < 1. and not their ratio; every correction is a multiple *)
(* of RelaxUnit, which makes 0.2 times a correction exact.  A solve() that *)
(* returns hands back finite corrections; one that cannot ends in          *)
(* SingularSystem.                                                         *)
(***************************************************************************)
EXTENDS Integers, Sequences, FiniteSets

\* ---- bounds of the model ------------------------------------------------
\* iteration cap of the while loop (10000 at line 60), scaled down
MaxIt == 2
\* radial points of the grid (nr = 50 at line 8), scaled down
NR == 3
\* lines of stdout that are remembered (the most recent ones)
OutWindow == 2

\* ---- program constants --------------------------------------------------
\* double tol = 1e-12 (line 7), on the grid
Tol == 5
\* if(error>0.01) (line 112), on the grid
RelaxThreshold == 10
\* the value 1. of double Lambda = 1. (line 43) and double error = 1. (line 46), on the grid
One == 20
\* double relax = 1. (line 111): relax is counted in fifths
RelaxUnit == 5
\* relax = 0.2 (line 112): one fifth
RelaxDamped == 1
\* return 0 at the end of main (line 147)
ExitSuccess == 0
\* return 1 in the non-converged branch
ExitFailure == ExitSuccess + 1
\* return 0 in the non-converged branch (line 124)
ExitNoConverge == 0

Abs(x) == IF x < 0 THEN -x ELSE x

\* max(abs(m)) for a column matrix m
MaxAbs(m) == CHOOSE x \in {Abs(m[i]) : i \in 1..Len(m)} :
                 \A j \in 1..Len(m) : Abs(m[j]) <= x

\* relax * d, relax counted in fifths
Scale(r, d) == (r * d) \div RelaxUnit

\* m(k) and m.row(k): k = -1 is the last row, k = 0 the first
Row(k) == IF k < 0 THEN NR + 1 + k ELSE k + 1

\* map.r * map.r on [0, 1]: the initial guess Phi = r^2
InitPhi == [i \in 1..NR |-> (One * (i - 1) * (i - 1)) \div ((NR - 1) * (NR - 1))]

VarNames == <<"Phi", "Lambda", "Phi0">>

VARIABLES pc, run, Phi, Lambda, Phi0, error, it, relax, rhs, dPhi, S, op, out, fig, exit

vars == <<pc, run, Phi, Lambda, Phi0, error, it, relax, rhs, dPhi, S, op, out, fig, exit>>

\* ---- the statements of main, by line, in program order ------------------
Setup == <<54, 55, 56, 57, 58>>
\* the loop body with op.reset() (line 71) after the first eq.add (line 75)
LoopBodyResetLate ==
    <<62, 63, 64, 65, 66, 67, 68, 69, 75, 71, 76, 77, 80, 81, 82,
      85, 86, 87, 88, 92, 93, 94, 100, 101, 102, 103, 105,
      107, 108, 109, 111, 112, 115, 116, 117, 119>>
\* the loop body without op.reset() (line 71)
LoopBodyNoReset ==
    <<62, 63, 64, 65, 66, 67, 68, 69, 75, 76, 77, 80, 81, 82,
      85, 86, 87, 88, 92, 93, 94, 100, 101, 102, 103, 105,
      107, 108, 109, 111, 112, 115, 116, 117, 119>>
LoopBody == <<62, 63, 64, 65, 66, 67, 68, 69, 71, 75, 76, 77, 80, 81, 82,
              85, 86, 87, 88, 92, 93, 94, 100, 101, 102, 103, 105,
              107, 108, 109, 111, 112, 115, 116, 117, 119>>
NoConverge == <<123, 124>>
Epilogue == <<127, 134, 135, 136, 137, 140, 141, 142, 143, 144, 145, 147>>

\* the line control reaches after a statement that falls through
Follow(seq, l, last) ==
    LET i == CHOOSE k \in 1..Len(seq) : seq[k] = l
    IN IF i < Len(seq) THEN seq[i + 1] ELSE last

Succ(l) ==
    IF \E k \in 1..Len(Setup) : Setup[k] = l THEN Follow(Setup, l, 60)
    ELSE IF \E k \in 1..Len(LoopBody) : LoopBody[k] = l THEN Follow(LoopBody, l, 60)
    ELSE IF \E k \in 1..Len(NoConverge) : NoConverge[k] = l THEN Follow(NoConverge, l, l)
    ELSE Follow(Epilogue, l, l)

\* ---- the library, as far as main's run depends on it --------------------
\* the linearization point the symbolic object holds
Point(sv) == <<sv.Phi, sv.Lambda, sv.Phi0>>

\* row i of -eq.eval(): the bulk residual at the values S holds
NegEq(i, sv) == [f |-> "-eq", row |-> i, arg |-> Point(sv)]
\* row i of -(map.D, Phi)
NegD(i, m) == [f |-> "-D.Phi", row |-> i, arg |-> <<m>>]
\* row i of -(map.D, Phi) - Phi
NegDMinus(i, m) == [f |-> "-D.Phi-Phi", row |-> i, arg |-> <<m>>]

\* the row of the domain a boundary condition is written to
BcRow(side) == IF side = "bot2" THEN Row(0) ELSE Row(-1)

\* the corrections solve() may return
Big == RelaxThreshold + Tol
CorrVals == {0, Tol, RelaxThreshold, Big, -Big}
PhiCorrections == {[i \in 1..NR |-> IF i = p THEN c ELSE 0] : p \in 1..NR, c \in CorrVals}
ScalarCorrections == {<<0, 0>>, <<Big, -Big>>}
Solutions == {[Phi |-> d, Lambda |-> s[1], Phi0 |-> s[2]] :
                 d \in PhiCorrections, s \in ScalarCorrections}
\* how a call of solve() can end
SolveResults == {"solved", "SingularSystem"}
NoSolution == [Phi |-> [i \in 1..NR |-> 0], Lambda |-> 0, Phi0 |-> 0]

\* stdout keeps its most recent lines
Stdout(o, line) ==
    LET all == Append(o, line)
    IN IF Len(all) > OutWindow THEN SubSeq(all, Len(all) - OutWindow + 1, Len(all)) ELSE all

NoRhs == [Phi |-> <<>>, Phi0 |-> <<>>, Lambda |-> <<>>]

NoValues == [Phi |-> <<>>, Lambda |-> 0, Phi0 |-> 0, set |-> {}]

Init ==
    /\ pc = 54 /\ run = "running"
    /\ run = "running"
    /\ Phi = InitPhi
    /\ Lambda = One
    /\ Phi0 = 0
    /\ error = One
    /\ it = 0
    /\ relax = 0
    /\ rhs = <<>>
    /\ dPhi = <<>>
    /\ S = NoValues
    /\ op = [state |-> "Uninitialized", vars |-> <<>>, nr |-> 0, rows |-> {},
             rhs |-> NoRhs, solved |-> FALSE, sol |-> NoSolution,
             resets |-> 0, solves |-> 0, log |-> <<>>]
    /\ out = <<>>
    /\ fig = <<>>
    /\ exit = {}

Call(name) == Append(op.log, name)

\* line 54: op.init(1, 3, "full")
OpInit ==
    /\ pc = 54 /\ run = "running"
    /\ op' = [op EXCEPT !.state = "Initialized", !.log = Call("init")]
    /\ pc' = Succ(pc)
    /\ UNCHANGED <<run, Phi, Lambda, Phi0, error, it, relax, rhs, dPhi, S, out, fig, exit>>

\* lines 55-57: op.regvar(name)
RegvarAt(l) == CASE l = 55 -> "Phi" [] l = 56 -> "Lambda" [] l = 57 -> "Phi0"
OpRegvar ==
    /\ pc \in {55, 56, 57} /\ run = "running"
    /\ op' = [op EXCEPT !.vars = Append(@, RegvarAt(pc)), !.log = Call("regvar")]
    /\ pc' = Succ(pc)
    /\ UNCHANGED <<run, Phi, Lambda, Phi0, error, it, relax, rhs, dPhi, S, out, fig, exit>>

\* line 58: op.set_nr(map.npts)
OpSetNr ==
    /\ pc = 58 /\ run = "running"
    /\ op' = [op EXCEPT !.nr = NR, !.log = Call("set_nr")]
    /\ pc' = Succ(pc)
    /\ UNCHANGED <<run, Phi, Lambda, Phi0, error, it, relax, rhs, dPhi, S, out, fig, exit>>

\* the loop test with it<=10000
LoopCondOffByOne(e, n) == e > Tol /\ n <= MaxIt
\* line 60: while(error>tol && it<10000)
LoopCond(e, n) == e > Tol /\ n < MaxIt
While ==
    /\ pc = 60 /\ run = "running"
    /\ pc' = IF LoopCond(error, it) THEN 62 ELSE 122
    /\ UNCHANGED <<run, Phi, Lambda, Phi0, error, it, relax, rhs, dPhi, S, op, out, fig, exit>>

\* lines 62, 68, 69 and 134-136: S.set_value(name, value)
SetValueAt(l) == CASE l \in {62, 134} -> "Phi"
                   [] l \in {68, 135} -> "Lambda"
                   [] l \in {69, 136} -> "Phi0"
SetValue ==
    /\ pc \in {62, 68, 69, 134, 135, 136} /\ run = "running"
    /\ LET v == SetValueAt(pc)
       IN S' = CASE v = "Phi" -> [S EXCEPT !.Phi = Phi, !.set = @ \cup {v}]
                 [] v = "Lambda" -> [S EXCEPT !.Lambda = Lambda, !.set = @ \cup {v}]
                 [] v = "Phi0" -> [S EXCEPT !.Phi0 = Phi0, !.set = @ \cup {v}]
    /\ pc' = Succ(pc)
    /\ UNCHANGED <<run, Phi, Lambda, Phi0, error, it, relax, rhs, dPhi, op, out, fig, exit>>

\* lines 63-67, 109, 123, 140-145: a line written to stdout
LineAt(l) == CASE l = 63 -> <<"iter", it>>
               [] l = 64 -> <<"phi", Phi[Row(0)], Phi[Row(-1)]>>
               [] l = 65 -> <<"omega">>
               [] l = 66 -> <<"phi0", Phi0>>
               [] l = 67 -> <<"lambda", Lambda>>
               [] l = 109 -> <<"Error", error>>
               [] l = 123 -> <<"No converge">>
               [] l = 140 -> <<"Lambda", Lambda>>
               [] l = 141 -> <<"Phi(0)", Phi[Row(0)]>>
               [] l = 142 -> <<"Phi(1)", Phi[Row(-1)]>>
               [] l = 143 -> <<"Boundary conditions">>
               [] l = 144 -> <<"dPhi/dr(0)", NegD(Row(0), Phi)>>
               [] l = 145 -> <<"dPhi/dr(1) + Phi(1)", NegDMinus(Row(-1), Phi)>>
PrintLine ==
    /\ pc \in {63, 64, 65, 66, 67, 109, 123, 140, 141, 142, 143, 144, 145} /\ run = "running"
    /\ out' = Stdout(out, LineAt(pc))
    /\ pc' = Succ(pc)
    /\ UNCHANGED <<run, Phi, Lambda, Phi0, error, it, relax, rhs, dPhi, S, op, fig, exit>>

\* line 71: op.reset() deletes the equations of the previous iteration
Reset ==
    /\ pc = 71 /\ run = "running"
    /\ op' = [op EXCEPT !.rows = {}, !.rhs = NoRhs, !.solved = FALSE, !.sol = NoSolution,
                        !.resets = @ + 1, !.log = <<"reset">>]
    /\ pc' = Succ(pc)
    /\ UNCHANGED <<run, Phi, Lambda, Phi0, error, it, relax, rhs, dPhi, S, out, fig, exit>>

\* lines 75-77: eq.add(&op, "Phi", name) adds the jacobian of eq at the values S holds
EqAddAt(l) == CASE l = 75 -> "Phi" [] l = 76 -> "Lambda" [] l = 77 -> "Phi0"
EqAdd ==
    /\ pc \in {75, 76, 77} /\ run = "running"
    /\ op' = [op EXCEPT !.rows = @ \cup {[call |-> "add", dom |-> 0, eq |-> "Phi",
                                         var |-> EqAddAt(pc), row |-> 0,
                                         at |-> Point(S), iter |-> it]},
                        !.log = Call("add")]
    /\ pc' = Succ(pc)
    /\ UNCHANGED <<run, Phi, Lambda, Phi0, error, it, relax, rhs, dPhi, S, out, fig, exit>>

\* lines 80-82, 92, 93, 100-102: op.bc_<side>_add_<type>(0, eq, var, ...)
BcAt(l) == CASE l = 80 -> [side |-> "bot2", type |-> "l", eq |-> "Phi", var |-> "Phi"]
             [] l = 81 -> [side |-> "top1", type |-> "l", eq |-> "Phi", var |-> "Phi"]
             [] l = 82 -> [side |-> "top1", type |-> "d", eq |-> "Phi", var |-> "Phi"]
             [] l = 92 -> [side |-> "bot2", type |-> "d", eq |-> "Phi0", var |-> "Phi"]
             [] l = 93 -> [side |-> "bot2", type |-> "d", eq |-> "Phi0", var |-> "Phi0"]
             [] l = 100 -> [side |-> "top1", type |-> "d", eq |-> "Lambda", var |-> "Phi"]
             [] l = 101 -> [side |-> "top1", type |-> "d", eq |-> "Lambda", var |-> "Phi0"]
             [] l = 102 -> [side |-> "top1", type |-> "d", eq |-> "Lambda", var |-> "Lambda"]
BcAdd ==
    /\ pc \in {80, 81, 82, 92, 93, 100, 101, 102} /\ run = "running"
    /\ LET b == BcAt(pc)
       IN op' = [op EXCEPT !.rows = @ \cup {[call |-> "bc_" \o b.side \o "_add_" \o b.type,
                                            dom |-> 0, eq |-> b.eq, var |-> b.var,
                                            row |-> BcRow(b.side),
                                            at |-> <<Phi, Lambda, Phi0>>,
                                            iter |-> it]},
                           !.log = Call("bc")]
    /\ pc' = Succ(pc)
    /\ UNCHANGED <<run, Phi, Lambda, Phi0, error, it, relax, rhs, dPhi, S, out, fig, exit>>

\* line 85: matrix rhs = -eq.eval(), evaluated at the values S holds
RhsEval ==
    /\ pc = 85 /\ run = "running"
    /\ S.set = {"Phi", "Lambda", "Phi0"}
    /\ rhs' = [i \in 1..NR |-> NegEq(i, S)]
    /\ pc' = Succ(pc)
    /\ UNCHANGED <<run, Phi, Lambda, Phi0, error, it, relax, dPhi, S, op, out, fig, exit>>

\* both setrow calls writing row 0
SetRowAtFirstTwice(l) == 0
\* lines 86, 87: rhs.setrow(k, ...) with k = 0 and k = -1
SetRowAt(l) == CASE l = 86 -> 0 [] l = 87 -> -1
RhsSetRow ==
    /\ pc \in {86, 87} /\ run = "running"
    /\ LET k == Row(SetRowAt(pc))
       IN rhs' = [rhs EXCEPT ![k] = IF pc = 86 THEN NegD(k, Phi) ELSE NegDMinus(k, Phi)]
    /\ pc' = Succ(pc)
    /\ UNCHANGED <<run, Phi, Lambda, Phi0, error, it, relax, dPhi, S, op, out, fig, exit>>

\* a product of two grid values
Times(a, b) == (a * b) \div One

\* lines 88, 94, 103: op.set_rhs(name, value)
SetRhsAt(l) == CASE l = 88 -> "Phi" [] l = 94 -> "Phi0" [] l = 103 -> "Lambda"
SetRhs ==
    /\ pc \in {88, 94, 103} /\ run = "running"
    /\ LET v == SetRhsAt(pc)
       IN op' = CASE v = "Phi" -> [op EXCEPT !.rhs.Phi = rhs, !.log = Call("set_rhs")]
                  [] v = "Phi0" ->
                       [op EXCEPT !.rhs.Phi0 = <<-(Phi[Row(0)] - Phi0)>>,
                                  !.log = Call("set_rhs")]
                  [] v = "Lambda" ->
                       [op EXCEPT !.rhs.Lambda = <<-(Times(Lambda, Phi[Row(-1)] - Phi0) - One)>>,
                                  !.log = Call("set_rhs")]
    /\ pc' = Succ(pc)
    /\ UNCHANGED <<run, Phi, Lambda, Phi0, error, it, relax, rhs, dPhi, S, out, fig, exit>>

\* main going on after a failed solve, as if the failure were caught and dropped
OnSingularIgnored == "go on"
\* what main does when op.solve() fails: line 105 stands in no try block and
\* tests no status, so the failure ends main there
OnSingular == "leave main"

\* line 105: op.solve() returns with a correction for every unknown, or fails
\* with SingularSystem
Solve ==
    /\ pc = 105 /\ run = "running"
    /\ \/ /\ "solved" \in SolveResults
          /\ \E s \in Solutions :
                op' = [op EXCEPT !.solved = TRUE, !.sol = s, !.solves = @ + 1,
                                 !.log = Call("solve")]
          /\ pc' = Succ(pc)
          /\ run' = run
       \/ /\ "SingularSystem" \in SolveResults
          /\ op' = [op EXCEPT !.solved = FALSE, !.solves = @ + 1, !.log = Call("solve")]
          /\ IF OnSingular = "leave main"
               THEN pc' = pc /\ run' = "SingularSystem"
               ELSE pc' = Succ(pc) /\ run' = run
    /\ UNCHANGED <<Phi, Lambda, Phi0, error, it, relax, rhs, dPhi, S, out, fig, exit>>

\* line 107: matrix dPhi = op.get_var("Phi")
GetDPhi ==
    /\ pc = 107 /\ run = "running"
    /\ dPhi' = op.sol.Phi
    /\ op' = [op EXCEPT !.log = Call("get_var")]
    /\ pc' = Succ(pc)
    /\ UNCHANGED <<run, Phi, Lambda, Phi0, error, it, relax, rhs, S, out, fig, exit>>

\* the error taken over the corrections of all three unknowns
ErrorOfAll(d) == MaxAbs(d \o <<op.sol.Lambda, op.sol.Phi0>>)
\* line 108: error = max(abs(dPhi))
ErrorOf(d) == MaxAbs(d)
CalcError ==
    /\ pc = 108 /\ run = "running"
    /\ error' = ErrorOf(dPhi)
    /\ pc' = Succ(pc)
    /\ UNCHANGED <<run, Phi, Lambda, Phi0, it, relax, rhs, dPhi, S, op, out, fig, exit>>

\* line 111: double relax = 1.
RelaxInit ==
    /\ pc = 111 /\ run = "running"
    /\ relax' = RelaxUnit
    /\ pc' = Succ(pc)
    /\ UNCHANGED <<run, Phi, Lambda, Phi0, error, it, rhs, dPhi, S, op, out, fig, exit>>

\* the relaxation test with error>=0.01
RelaxForAtLeast(e, r) == IF e >= RelaxThreshold THEN RelaxDamped ELSE r
\* line 112: if(error>0.01) relax = 0.2
RelaxFor(e, r) == IF e > RelaxThreshold THEN RelaxDamped ELSE r
RelaxIf ==
    /\ pc = 112 /\ run = "running"
    /\ relax' = RelaxFor(error, relax)
    /\ pc' = Succ(pc)
    /\ UNCHANGED <<run, Phi, Lambda, Phi0, error, it, rhs, dPhi, S, op, out, fig, exit>>

\* the factor lines 115, 116 and 117 multiply the correction of unknown v by
StepFactor(v) == relax

\* line 115: Phi += relax*dPhi
UpdPhi ==
    /\ pc = 115 /\ run = "running"
    /\ Phi' = [i \in 1..NR |-> Phi[i] + Scale(StepFactor("Phi"), dPhi[i])]
    /\ pc' = Succ(pc)
    /\ UNCHANGED <<run, Lambda, Phi0, error, it, relax, rhs, dPhi, S, op, out, fig, exit>>

\* line 116: Phi0 += relax*op.get_var("Phi0")(0)
UpdPhi0 ==
    /\ pc = 116 /\ run = "running"
    /\ Phi0' = Phi0 + Scale(StepFactor("Phi0"), op.sol.Phi0)
    /\ op' = [op EXCEPT !.log = Call("get_var")]
    /\ pc' = Succ(pc)
    /\ UNCHANGED <<run, Phi, Lambda, error, it, relax, rhs, dPhi, S, out, fig, exit>>

\* line 117: Lambda += relax*op.get_var("Lambda")(0)
UpdLambda ==
    /\ pc = 117 /\ run = "running"
    /\ Lambda' = Lambda + Scale(StepFactor("Lambda"), op.sol.Lambda)
    /\ op' = [op EXCEPT !.log = Call("get_var")]
    /\ pc' = Succ(pc)
    /\ UNCHANGED <<run, Phi, Phi0, error, it, relax, rhs, dPhi, S, out, fig, exit>>

\* line 119: it++, and the end of the loop body, where rhs, dPhi and relax end
IncrIt ==
    /\ pc = 119 /\ run = "running"
    /\ it' = it + 1
    /\ rhs' = <<>> /\ dPhi' = <<>> /\ relax' = 0
    /\ pc' = Succ(pc)
    /\ UNCHANGED <<run, Phi, Lambda, Phi0, error, S, op, out, fig, exit>>

\* the final test against the relaxation threshold instead of tol
FailedLoose(e) == e > RelaxThreshold
\* line 122: if(error>tol)
Failed(e) == e > Tol
IfError ==
    /\ pc = 122 /\ run = "running"
    /\ pc' = IF Failed(error) THEN 123 ELSE 127
    /\ UNCHANGED <<run, Phi, Lambda, Phi0, error, it, relax, rhs, dPhi, S, op, out, fig, exit>>

\* lines 124 and 147: return 0
ReturnAt(l) == CASE l = 124 -> ExitNoConverge [] l = 147 -> ExitSuccess
Return ==
    /\ pc \in {124, 147} /\ run = "running"
    /\ exit' = {ReturnAt(pc)}
    /\ run' = "returned"
    /\ UNCHANGED <<pc, Phi, Lambda, Phi0, error, it, relax, rhs, dPhi, S, op, out, fig>>

\* lines 127-132: the figure is opened and map.draw(&fig, Phi) plots the field
Figure ==
    /\ pc = 127 /\ run = "running"
    /\ fig' = Append(fig, <<"draw", Phi>>)
    /\ pc' = Succ(pc)
    /\ UNCHANGED <<run, Phi, Lambda, Phi0, error, it, relax, rhs, dPhi, S, op, out, exit>>

\* lines 137-138: fig.semilogy(..., abs(eq.eval())) plots the residual at the values S holds
Residual ==
    /\ pc = 137 /\ run = "running"
    /\ S.set = {"Phi", "Lambda", "Phi0"}
    /\ fig' = Append(fig, <<"semilogy", Point(S)>>)
    /\ pc' = Succ(pc)
    /\ UNCHANGED <<run, Phi, Lambda, Phi0, error, it, relax, rhs, dPhi, S, op, out, exit>>

Next ==
    \/ OpInit \/ OpRegvar \/ OpSetNr \/ While \/ SetValue \/ PrintLine \/ Reset
    \/ EqAdd \/ BcAdd \/ RhsEval \/ RhsSetRow \/ SetRhs \/ Solve \/ GetDPhi
    \/ CalcError \/ RelaxInit \/ RelaxIf \/ UpdPhi \/ UpdPhi0 \/ UpdLambda
    \/ IncrIt \/ IfError \/ Return \/ Figure \/ Residual

Spec == Init /\ [][Next]_vars

\* main runs to its end: no statement waits for anything
FairSpec == Spec /\ WF_vars(Next)

\* ---- the claims ----------------------------------------------------------

Here == <<Phi, Lambda, Phi0>>
AllSet == S.set = {"Phi", "Lambda", "Phi0"}
LastLines(n) == SubSeq(out, Len(out) - n + 1, Len(out))
RawError == MaxAbs(op.sol.Phi)

\* C1: in every executed iteration, the last one included, Phi, Lambda and
\* Phi0 each move by the same factor times the raw correction solve()
\* returned: a fifth of it when max|dPhi| > 0.01, all of it when
\* max|dPhi| <= 0.01.  (At line 119 the three updates are done and S still
\* holds the values the iteration started from.)
C1_RelaxedUpdate ==
    (pc = 119 /\ run = "running") =>
        LET Applied(now, before) == now - before
            Right(step, raw) == IF RawError > RelaxThreshold THEN 5 * step = raw
                                                             ELSE step = raw
        IN /\ \A i \in 1..NR : Right(Applied(Phi[i], S.Phi[i]), op.sol.Phi[i])
           /\ Right(Applied(Lambda, S.Lambda), op.sol.Lambda)
           /\ Right(Applied(Phi0, S.Phi0), op.sol.Phi0)

\* C1 witness: the last iteration the cap allows has made a damped update
\* of all three unknowns
C1_Witness ==
    /\ pc = 119 /\ it = MaxIt - 1
    /\ RawError > RelaxThreshold
    /\ op.sol.Lambda # 0 /\ op.sol.Phi0 # 0
    /\ Lambda # S.Lambda /\ Phi0 # S.Phi0 /\ Phi # S.Phi

\* C2: the loop ends in every run; it runs at least one and at most MaxIt
\* iterations; it grows by exactly one per iteration, at line 119 only, and
\* counts the calls of solve(); and control leaves the loop head exactly
\* when error <= tol or the cap is reached.
C2_LoopTerminates ==
    /\ <>(pc = 122 \/ run # "running")
    /\ [](it >= 0 /\ it <= MaxIt)
    /\ [](pc \in {60, 122} => it = op.solves)
    /\ [](pc = 122 => it >= 1)
    /\ [][it' # it => (pc = 119 /\ it' = it + 1)]_vars
    /\ [][pc = 60 => (pc' = 122 <=> (error <= Tol \/ it = MaxIt))]_vars

\* C2 witness: the loop has been left at the cap, after MaxIt solves
C2_Witness == pc = 122 /\ it = MaxIt /\ op.solves = MaxIt /\ error > Tol

C4_ExitCodeZero ==
    run = "returned" =>
        /\ exit = {0}
        /\ pc \in {124, 147}
        /\ (pc = 124) <=> (error > Tol)
        /\ pc = 124 => (LastLines(1) = << <<"No converge">> >> /\ fig = <<>>)
        /\ pc = 147 => (LastLines(1)[1][1] = "dPhi/dr(1) + Phi(1)" /\ Len(fig) = 2)

\* C4 witness: the non-converged run has returned, with its exit code set
C4_Witness == run = "returned" /\ pc = 124 /\ exit # {} /\ error > Tol /\ fig = <<>>

SetupLog == <<"init", "regvar", "regvar", "regvar", "set_nr">>
Phase(c) == CASE c = "reset" -> 0
              [] c \in {"add", "bc", "set_rhs"} -> 1
              [] c = "solve" -> 2
              [] c = "get_var" -> 3
Count(log, c) == Cardinality({i \in 1..Len(log) : log[i] = c})
\* the calls of one whole iteration: reset, 3 add, 8 bc and 3 set_rhs, solve, 3 get_var
WholeCycle(log) ==
    /\ Count(log, "add") = 3 /\ Count(log, "bc") = 8 /\ Count(log, "set_rhs") = 3
    /\ Count(log, "solve") = 1 /\ Count(log, "get_var") = 3

\* C5: op is driven Uninitialized -> Initialized -> [reset -> assemble ->
\* solve -> read] repeating: init, the three regvar and set_nr are called
\* once each, in this order, before the first reset; in every iteration the
\* calls made on op since its reset are ordered reset, then eq.add / bc_* /
\* set_rhs, then one solve, then get_var; and a reset comes only after the
\* setup or after a whole cycle.  (op.log is the calls since the last reset.)
C5_SolverCycle ==
    /\ [](op.resets = 0 =>
            /\ Len(op.log) <= Len(SetupLog)
            /\ op.log = SubSeq(SetupLog, 1, Len(op.log))
            /\ op.rows = {} /\ op.solves = 0)
    /\ [](op.resets > 0 =>
            /\ op.state = "Initialized" /\ op.vars = VarNames /\ op.nr = NR
            /\ op.log[1] = "reset"
            /\ \A i, j \in 1..Len(op.log) : i < j => Phase(op.log[i]) <= Phase(op.log[j])
            /\ Count(op.log, "reset") = 1
            /\ Count(op.log, "solve") <= 1)
    /\ [](pc \in {54, 55, 56, 57, 58} => op.resets = 0)
    /\ [][op'.resets # op.resets =>
            /\ op'.resets = op.resets + 1
            /\ IF op.resets = 0 THEN op.log = SetupLog ELSE WholeCycle(op.log)]_vars

\* C5 witness: a second iteration has made all its calls on op
C5_Witness == op.resets = 2 /\ pc = 119 /\ WholeCycle(op.log) /\ Len(op.log) = 19

\* C6: whenever eq.add, eq.eval or solve() is about to run (lines 75-77, 85,
\* 105, and 137 after convergence), S holds a value for Phi, Lambda and Phi0
\* and each is the driver's current one; and the system handed to solve()
\* in iteration it holds the 11 operator rows and the right-hand side built
\* in that iteration from the current values, and nothing older.
C6_FreshLinearization ==
    /\ pc \in {75, 76, 77, 85, 105, 137} => (AllSet /\ Point(S) = Here)
    /\ pc = 105 =>
           /\ \A r \in op.rows : r.iter = it /\ r.at = Here
           /\ Cardinality(op.rows) = 11
           /\ Len(op.rhs.Phi) = NR
           /\ \A i \in 1..NR : op.rhs.Phi[i].arg \in {Here, <<Phi>>}
    /\ \A i \in 1..Len(fig) : fig[i][1] = "semilogy" => fig[i][2] = Here

\* C6 witness: solve() is about to run in a later iteration, after the
\* unknowns have moved
C6_Witness ==
    /\ pc = 105 /\ it = MaxIt - 1 /\ it > 0 /\ run = "running"
    /\ Phi # InitPhi /\ Lambda # One /\ Phi0 # 0
    /\ Cardinality(op.rows) = 11

\* C7: error is max|dPhi| of the last solve and nothing else: the relax
\* factor and the exit from the loop follow from max|dPhi| and it alone, and
\* the loop is left as converged when max|dPhi| <= tol whatever the
\* corrections of Lambda and Phi0 are.
C7_ErrorIsPhiNorm ==
    /\ []((pc \in {109, 111, 112, 115, 116, 117, 119} \/ (pc \in {60, 122} /\ it > 0))
            => error = RawError)
    /\ [](pc \in {115, 116, 117, 119} =>
            relax = IF RawError > RelaxThreshold THEN RelaxDamped ELSE RelaxUnit)
    /\ [][(pc = 60 /\ it > 0) => (pc' = 122 <=> (RawError <= Tol \/ it = MaxIt))]_vars
    /\ [][(pc = 122 /\ RawError <= Tol) => pc' = 127]_vars

\* C7 witness: the result path is entered before the cap although the last
\* corrections of Lambda and Phi0 are above the tolerance
C7_Witness ==
    /\ pc = 127 /\ it < MaxIt
    /\ RawError <= Tol
    /\ Abs(op.sol.Lambda) > Tol /\ Abs(op.sol.Phi0) > Tol

C10_BoundaryRows ==
    pc \in {92, 93, 94, 100, 101, 102, 103, 105} =>
        /\ Len(op.rhs.Phi) = NR
        /\ op.rhs.Phi[1] = [f |-> "-D.Phi", row |-> 1, arg |-> <<Phi>>]
        /\ op.rhs.Phi[NR] = [f |-> "-D.Phi-Phi", row |-> NR, arg |-> <<Phi>>]
        /\ \A i \in 2..(NR - 1) : op.rhs.Phi[i] = [f |-> "-eq", row |-> i, arg |-> Here]
        /\ LET bcs == {r \in op.rows : r.eq = "Phi" /\ r.call # "add"}
           IN /\ {<<r.call, r.row>> : r \in bcs} =
                     {<<"bc_bot2_add_l", 1>>, <<"bc_top1_add_l", NR>>, <<"bc_top1_add_d", NR>>}
              /\ \A r \in bcs : r.dom = 0 /\ r.var = "Phi"

\* C10 witness: the Phi block is assembled in a later iteration, with a
\* bulk row between the two boundary rows
C10_Witness ==
    /\ pc = 105 /\ it = 1
    /\ op.rhs.Phi[2].f = "-eq"
    /\ op.rhs.Phi[1].f = "-D.Phi"
    /\ Phi # InitPhi

====
